---- MODULE Spec2Model ----
(***************************************************************************)
(* A model of the libp2p fetch protocol engine, src/src/fetch/index.ts:    *)
(* the lookup registry (a JavaScript Map from key prefix to lookup         *)
(* function), the outbound flow FetchService.fetch and the inbound flow    *)
(* FetchService.handleMessage, connected by one stream, and the lifecycle  *)
(* calls start() and stop() with the registrar they await.                 *)
(*                                                                         *)
(* Strings are sequences of one-character strings, byte blobs are          *)
(* sequences of numbers.                                                   *)
(***************************************************************************)
EXTENDS Integers, Sequences, FiniteSets, TLC

VARIABLES
    lookupFunctions,  \* this.lookupFunctions: the Map, as its entries in insertion order
    regBefore,        \* history: pairs <<p, q>> of registered prefixes, p registered before q
    observe,          \* history switch: whether registry calls are recorded in lastCall
    lastCall,         \* history: the last registry call, its arguments, outcome and pre-state
    fetchPc,          \* where the fetch call is: idle, openConnection, newStream, exchange, finally, done
    fetchKey,         \* fetch's key argument
    callerSignal,     \* options.signal: none (not supplied), pending or aborted
    remote,           \* who answers on the stream: engine (handleMessage), arbitrary or silent
    timer,            \* timeoutController: none (not created), pending, fired or cleared
    stream,           \* fetch's stream variable: undefined, open or closed
    fetchResult,      \* what the try block of fetch produced, kept while finally runs
    outcome,          \* what the fetch call returned or threw
    opened,           \* history: streams opened by the fetch call
    written,          \* history: request frames written by the fetch call
    consumed,         \* history: response frames consumed by the fetch call
    fetchPath,        \* history: the step that decided the fetch call's result
    c2s,              \* what the requester sent on the stream: frames, ended
    s2c,              \* what the responder sent on the stream: frames, ended
    inPc,             \* where handleMessage is: idle, read, lookup, respond, written, failed, closed
    inRequest,        \* the identifier of the request handleMessage decoded
    inLookup,         \* the lookup function handleMessage selected
    inArg,            \* the argument handleMessage invoked the lookup function with
    inResult,         \* what the lookup function returned
    inResponse,       \* the response handleMessage built
    inError,          \* the error the inbound invocation failed with
    inLogged,         \* what the handler's catch passed to log.error
    inEscaped,        \* whether an error left the handler's promise chain unhandled
    started,          \* this.started
    handlerRegistered,\* the registrar: whether it holds the handler for the protocol
    startPc,          \* where the start() call is: idle, handle (awaiting), handled
    stopPc            \* where the stop() call is: idle, unhandle (awaiting), unhandled

registryVars == <<lookupFunctions, regBefore, observe, lastCall>>
fetchVars == <<fetchPc, fetchKey, callerSignal, remote, timer, stream, fetchResult, outcome,
               opened, written, consumed, fetchPath>>
wireVars == <<c2s, s2c>>
inVars == <<inPc, inRequest, inLookup, inArg, inResult, inResponse, inError, inLogged, inEscaped>>
lifeVars == <<started, handlerRegistered, startPc, stopPc>>
vars == <<registryVars, fetchVars, wireVars, inVars, lifeVars>>

\* ------------------------------------------------------------------ inputs

\* The key prefixes the callers register: "", "a" and "ab" overlap.
Prefixes == {<<>>, <<"a">>, <<"a", "b">>}

\* The keys that are fetched and resolved.
Keys == {<<"a", "b", "c">>, <<"b">>}

\* The lookup functions (compared by identity).
Lookups == {"f1", "f2"}

\* JavaScript's undefined: Map.get of a missing key, an omitted argument.
Undefined == "undefined"

\* ------------------------------------------------------------------ strings

\* String.prototype.startsWith
StartsWith(key, prefix) ==
    /\ Len(prefix) <= Len(key)
    /\ \A i \in 1..Len(prefix) : key[i] = prefix[i]

\* ------------------------------------------------------------------ the Map

\* Map.prototype.keys(): the keys in insertion order
MapKeys(m) == [i \in 1..Len(m) |-> m[i].prefix]

\* Map.prototype.has
MapHas(m, k) == \E i \in 1..Len(m) : m[i].prefix = k

\* a get that pairs the key with the Map's first value
MapGetFirst(m, k) == IF m = <<>> THEN Undefined ELSE m[1].lookup

\* Map.prototype.get
MapGet(m, k) ==
    IF MapHas(m, k)
    THEN m[CHOOSE i \in 1..Len(m) : m[i].prefix = k].lookup
    ELSE Undefined

\* Map.prototype.set: a present key keeps its place, a new key goes last
MapSet(m, k, v) ==
    IF MapHas(m, k)
    THEN [i \in 1..Len(m) |-> IF m[i].prefix = k THEN [prefix |-> k, lookup |-> v] ELSE m[i]]
    ELSE Append(m, [prefix |-> k, lookup |-> v])

\* Map.prototype.delete: the other entries keep their order
MapDelete(m, k) == SelectSeq(m, LAMBDA e : e.prefix # k)

\* ------------------------------------------------------------------ the registry

RECURSIVE ScanFrom(_, _, _)
\* the for-of loop of _getLookupFunction from position i of the key iterator
ScanFrom(m, key, i) ==
    IF i > Len(m) THEN Undefined
    ELSE IF StartsWith(key, MapKeys(m)[i]) THEN MapGet(m, MapKeys(m)[i])
    ELSE ScanFrom(m, key, i + 1)

\* _getLookupFunction returning the longest matching prefix's lookup function
getLookupFunctionLongest(m, key) ==
    LET hits == {i \in 1..Len(m) : StartsWith(key, m[i].prefix)} IN
    IF hits = {} THEN Undefined
    ELSE m[CHOOSE i \in hits : \A j \in hits : Len(m[j].prefix) <= Len(m[i].prefix)].lookup

\* FetchService._getLookupFunction
getLookupFunction(m, key) == ScanFrom(m, key, 1)

\* registerLookupFunction without its has() check
registerLookupFunctionOverwrite(m, prefix, lookup) ==
    [map |-> MapSet(m, prefix, lookup), result |-> "ok"]

\* The result of registerLookupFunction(prefix, lookup) on Map m.
registerLookupFunction(m, prefix, lookup) ==
    IF MapHas(m, prefix)
    THEN [map |-> m, result |-> "ERR_KEY_ALREADY_EXISTS"]
    ELSE [map |-> MapSet(m, prefix, lookup), result |-> "ok"]

\* unregisterLookupFunction without its identity check
unregisterLookupFunctionAny(m, prefix, lookup) ==
    [map |-> MapDelete(m, prefix), result |-> "ok"]

\* The result of unregisterLookupFunction(prefix, lookup) on Map m;
\* lookup = Undefined is the omitted argument.
unregisterLookupFunction(m, prefix, lookup) ==
    IF lookup # Undefined /\ MapGet(m, prefix) # lookup
    THEN [map |-> m, result |-> "ok"]
    ELSE [map |-> MapDelete(m, prefix), result |-> "ok"]

NoCall == [op |-> "none", prefix |-> <<>>, lookup |-> Undefined, result |-> "none",
           before |-> <<>>]

Record(op, prefix, lookup, result) ==
    IF observe
    THEN [op |-> op, prefix |-> prefix, lookup |-> lookup, result |-> result,
          before |-> lookupFunctions]
    ELSE NoCall

\* history of the registration order: prefix p is now the latest registered
OrderAfter(before, after, order) ==
    LET keys(m) == {m[i].prefix : i \in 1..Len(m)}
        kept == {pq \in order : pq[1] \in keys(after) /\ pq[2] \in keys(after)}
    IN  kept \cup {<<p, q>> \in keys(before) \X (keys(after) \ keys(before)) : TRUE}

\* a caller registers a lookup function
Register(prefix, lookup) ==
    LET r == registerLookupFunction(lookupFunctions, prefix, lookup) IN
    /\ lookupFunctions' = r.map
    /\ regBefore' = OrderAfter(lookupFunctions, r.map, regBefore)
    /\ lastCall' = Record("register", prefix, lookup, r.result)
    /\ UNCHANGED <<observe, lifeVars, fetchVars, wireVars, inVars>>

\* a caller unregisters a prefix, with or without the lookup function it owns
Unregister(prefix, lookup) ==
    LET r == unregisterLookupFunction(lookupFunctions, prefix, lookup) IN
    /\ lookupFunctions' = r.map
    /\ regBefore' = OrderAfter(lookupFunctions, r.map, regBefore)
    /\ lastCall' = Record("unregister", prefix, lookup, r.result)
    /\ UNCHANGED <<observe, lifeVars, fetchVars, wireVars, inVars>>

\* ------------------------------------------------------------------ values

\* The byte blobs lookup functions return and remotes send: empty and non-empty.
Values == {<<>>, <<1, 2, 3>>}

NoResult == [kind |-> "none", data |-> <<>>, code |-> "", msg |-> <<>>]

\* JavaScript's null: a lookup function's "no value", fetch's "absent"
Null == [kind |-> "null", data |-> <<>>, code |-> "", msg |-> <<>>]

\* a Uint8Array
Value(d) == [kind |-> "value", data |-> d, code |-> "", msg |-> <<>>]

\* errCode(new Error(msg), code), or another thrown error, as code and message
Err(code, msg) == [kind |-> "error", data |-> <<>>, code |-> code, msg |-> msg]

\* ------------------------------------------------------------------ text

\* The characters and message texts that occur, each with the bytes that encode
\* it (one number stands for the UTF-8 bytes of the whole text).
CodePoints ==
    { <<"a", 97>>, <<"b", 98>>, <<"c", 99>>,
      <<"No lookup function registered for key: ", 1001>>, <<"U+FFFD", 65533>> }

\* what TextDecoder gives for bytes that are no text: U+FFFD
Replacement == "U+FFFD"

\* TextEncoder.encode
TextEncode(str) ==
    [i \in 1..Len(str) |-> (CHOOSE cp \in CodePoints : cp[1] = str[i])[2]]

\* TextDecoder.decode
TextDecode(bytes) ==
    [i \in 1..Len(bytes) |->
        IF \E cp \in CodePoints : cp[2] = bytes[i]
        THEN (CHOOSE cp \in CodePoints : cp[2] = bytes[i])[1]
        ELSE Replacement]

\* ------------------------------------------------------------------ message schema

\* A message body is its sequence of fields [tag, value]; a field holding its
\* default value is not written, a reader takes the last field of a tag and
\* skips the tags it does not know; tag 0 is no field, such a body is malformed.
Field(tag, value) == [tag |-> tag, value |-> value]

HasField(buf, tag) == \E i \in 1..Len(buf) : buf[i].tag = tag

FieldValue(buf, tag, default) ==
    IF HasField(buf, tag)
    THEN buf[CHOOSE i \in 1..Len(buf) :
                /\ buf[i].tag = tag
                /\ \A j \in (i + 1)..Len(buf) : buf[j].tag # tag].value
    ELSE default

Malformed(buf) == HasField(buf, 0)

\* FetchRequest.encode
FetchRequestEncode(request) ==
    IF request.identifier = <<>> THEN <<>>
    ELSE <<Field(1, TextEncode(request.identifier))>>

\* FetchRequest.decode of a well-formed body
FetchRequestDecode(buf) == [identifier |-> TextDecode(FieldValue(buf, 1, <<>>))]

\* FetchResponse.encode
FetchResponseEncode(response) ==
    (IF response.status = "OK" THEN <<>> ELSE <<Field(1, response.status)>>)
    \o (IF response.data = <<>> THEN <<>> ELSE <<Field(2, response.data)>>)

\* FetchResponse.decode of a well-formed body
FetchResponseDecode(buf) ==
    [status |-> FieldValue(buf, 1, "OK"), data |-> FieldValue(buf, 2, <<>>)]

\* ------------------------------------------------------------------ frame codec

\* lp.encode: the body behind its length
LpEncode(buf) == [length |-> Len(buf), payload |-> buf]

\* One direction of a stream with nothing sent on it.
NoBytes == [frames |-> <<>>, ended |-> FALSE]

\* first(source) behind lp.decode, on what was sent: the first frame's body,
\* nothing when the stream ended before any byte, a framing error when it
\* ended inside the frame
First(wire) ==
    IF wire.frames = <<>> THEN [kind |-> "nothing", payload |-> <<>>]
    ELSE IF wire.frames[1].length # Len(wire.frames[1].payload)
         THEN [kind |-> "framing", payload |-> <<>>]
    ELSE [kind |-> "buf", payload |-> wire.frames[1].payload]

\* whether a first(source) that is waiting can complete: a whole frame has
\* arrived, or the stream has ended
Readable(wire) ==
    \/ wire.ended
    \/ wire.frames # <<>> /\ wire.frames[1].length = Len(wire.frames[1].payload)

\* ------------------------------------------------------------------ outbound flow: fetch

\* The peers fetch is called with, by who answers: another engine's
\* handleMessage, a remote that sends what it likes, a remote that never responds.
Remotes == {"engine", "arbitrary", "silent"}

AbortError == Err("ABORT_ERR", <<"The operation was aborted">>)

\* the timeoutController fetch creates when options.signal is "sig"
CreateTimeout(sig) == IF sig = "none" THEN "pending" ELSE "none"

\* fetch's signal variable: options.signal, or else the timeoutController's
\* signal; whether it has fired
SignalAborted ==
    IF callerSignal # "none" THEN callerSignal = "aborted" ELSE timer = "fired"

\* a finally block that leaves the timer running
ClearTimeoutNever(t) == t

\* timeoutController.clear() when a timeoutController was created
ClearTimeout(t) == IF t = "pending" THEN "cleared" ELSE t

\* a finally block that leaves the stream as it is
CloseStreamNever(s) == s

\* stream.close() when a stream was opened
CloseStream(s) == IF s # Undefined THEN "closed" ELSE s

\* the switch on response.status with OK and empty data giving null
StatusResultEmptyAbsent(response) ==
    CASE response.status = "OK" ->
            IF response.data = <<>> THEN Null ELSE Value(response.data)
      [] response.status = "NOT_FOUND" -> Null
      [] response.status = "ERROR" ->
            Err("ERR_INVALID_PARAMETERS",
                <<"Error in fetch protocol response: ">> \o TextDecode(response.data))
      [] OTHER -> Err("ERR_INVALID_MESSAGE", <<"Unknown response status">>)

\* the switch on response.status
StatusResult(response) ==
    CASE response.status = "OK" -> Value(response.data)
      [] response.status = "NOT_FOUND" -> Null
      [] response.status = "ERROR" ->
            Err("ERR_INVALID_PARAMETERS",
                <<"Error in fetch protocol response: ">> \o TextDecode(response.data))
      [] OTHER -> Err("ERR_INVALID_MESSAGE", <<"Unknown response status">>)

\* the last stage of the pipe without its buf == null check
ReadResponseNoCheck(buf) ==
    IF buf.kind = "framing" THEN Err("ERR_FRAMING", <<"unexpected end of input">>)
    ELSE IF Malformed(buf.payload) THEN Err("ERR_DECODE", <<"malformed message">>)
    ELSE StatusResult(FetchResponseDecode(buf.payload))

\* the last stage of fetch's pipe, on what first(source) gave
ReadResponse(buf) ==
    IF buf.kind = "framing" THEN Err("ERR_FRAMING", <<"unexpected end of input">>)
    ELSE IF buf.kind = "nothing"
         THEN Err("ERR_INVALID_MESSAGE", <<"No data received">>)
    ELSE IF Malformed(buf.payload) THEN Err("ERR_DECODE", <<"malformed message">>)
    ELSE StatusResult(FetchResponseDecode(buf.payload))

\* result ?? null
OrNull(r) == IF r.kind = "none" THEN Null ELSE r

\* fetch(peer, key, options) is called and awaits openConnection(peer, options)
FetchCall(k, sig, peer) ==
    /\ fetchPc = "idle"
    /\ fetchPc' = "openConnection"
    /\ fetchKey' = k
    /\ callerSignal' = sig
    /\ remote' = peer
    /\ UNCHANGED <<timer, stream, fetchResult, outcome, opened, written, consumed, fetchPath>>
    /\ UNCHANGED <<lifeVars, registryVars, wireVars, inVars>>

\* openConnection resolves: fetch picks its signal and awaits newStream
OpenConnectionOk ==
    /\ fetchPc = "openConnection"
    /\ fetchPc' = "newStream"
    /\ timer' = CreateTimeout(callerSignal)
    /\ UNCHANGED <<fetchKey, callerSignal, remote, stream, fetchResult, outcome, opened,
                   written, consumed, fetchPath>>
    /\ UNCHANGED <<lifeVars, registryVars, wireVars, inVars>>

\* openConnection rejects with err: fetch throws it
OpenConnectionRejects(err) ==
    /\ fetchPc = "openConnection"
    /\ fetchPc' = "done"
    /\ outcome' = err
    /\ fetchPath' = "openConnection"
    /\ UNCHANGED <<fetchKey, callerSignal, remote, timer, stream, fetchResult, opened,
                   written, consumed>>
    /\ UNCHANGED <<lifeVars, registryVars, wireVars, inVars>>

\* the connection manager cannot connect
OpenConnectionFail == OpenConnectionRejects(Err("ERR_CONNECTION", <<"connection failed">>))

\* the caller's signal, which openConnection was given in options, has fired
OpenConnectionAbort == callerSignal = "aborted" /\ OpenConnectionRejects(AbortError)

\* newStream resolves: the stream is wrapped and the pipe starts; a remote
\* engine's registrar, when it holds the handler of start(), hands the stream
\* to it, which starts handleMessage
NewStreamOk ==
    /\ fetchPc = "newStream"
    /\ remote = "engine" => handlerRegistered
    /\ fetchPc' = "exchange"
    /\ stream' = "open"
    /\ opened' = opened + 1
    /\ inPc' = IF remote = "engine" THEN "read" ELSE inPc
    /\ UNCHANGED <<fetchKey, callerSignal, remote, timer, fetchResult, outcome, written,
                   consumed, fetchPath>>
    /\ UNCHANGED <<lifeVars, registryVars, wireVars>>
    /\ UNCHANGED <<inRequest, inLookup, inArg, inResult, inResponse, inError, inLogged,
                   inEscaped>>

\* newStream rejects with err: the try block throws it
NewStreamRejects(err) ==
    /\ fetchPc = "newStream"
    /\ fetchPc' = "finally"
    /\ fetchResult' = err
    /\ fetchPath' = "newStream"
    /\ UNCHANGED <<fetchKey, callerSignal, remote, timer, stream, outcome, opened, written,
                   consumed>>
    /\ UNCHANGED <<lifeVars, registryVars, wireVars, inVars>>

\* the remote refuses the protocol, or the connection breaks
NewStreamFail == NewStreamRejects(Err("ERR_STREAM_OPEN", <<"stream open failed">>))

\* the signal newStream was given has fired
NewStreamAbort == SignalAborted /\ NewStreamRejects(AbortError)

\* the pipe writes the one request frame into the stream
FetchWriteRequest ==
    /\ fetchPc = "exchange"
    /\ written = 0
    /\ ~SignalAborted
    /\ written' = written + 1
    /\ c2s' = [c2s EXCEPT !.frames =
                  Append(@, LpEncode(FetchRequestEncode([identifier |-> fetchKey])))]
    /\ UNCHANGED <<fetchPc, fetchKey, callerSignal, remote, timer, stream, fetchResult,
                   outcome, opened, consumed, fetchPath>>
    /\ UNCHANGED <<lifeVars, registryVars, s2c, inVars>>

\* first(source) completes and the response, if any, decides the result
FetchReadResponse ==
    /\ fetchPc = "exchange"
    /\ ~SignalAborted
    /\ Readable(s2c)
    /\ fetchPc' = "finally"
    /\ fetchResult' = ReadResponse(First(s2c))
    /\ consumed' = consumed + (IF s2c.frames = <<>> THEN 0 ELSE 1)
    /\ fetchPath' = "read"
    /\ UNCHANGED <<fetchKey, callerSignal, remote, timer, stream, outcome, opened, written>>
    /\ UNCHANGED <<lifeVars, registryVars, wireVars, inVars>>

\* an aborted exchange that is tried again on a new stream
FetchAbortedRetry ==
    /\ fetchPc = "exchange"
    /\ SignalAborted
    /\ fetchPc' = "newStream"
    /\ callerSignal' = IF callerSignal = "none" THEN callerSignal ELSE "pending"
    /\ timer' = IF timer = "fired" THEN "pending" ELSE timer
    /\ UNCHANGED <<fetchKey, remote, stream, fetchResult, outcome, opened, written,
                   consumed, fetchPath>>
    /\ UNCHANGED <<lifeVars, registryVars, wireVars, inVars>>

\* the signal has fired: the abortable stream throws into the pipe
FetchAborted ==
    /\ fetchPc = "exchange"
    /\ SignalAborted
    /\ fetchPc' = "finally"
    /\ fetchResult' = AbortError
    /\ fetchPath' = "abort"
    /\ UNCHANGED <<fetchKey, callerSignal, remote, timer, stream, outcome, opened, written,
                   consumed>>
    /\ UNCHANGED <<lifeVars, registryVars, wireVars, inVars>>

\* the finally block, then fetch returns result ?? null or throws
FetchFinally ==
    /\ fetchPc = "finally"
    /\ fetchPc' = "done"
    /\ timer' = ClearTimeout(timer)
    /\ stream' = CloseStream(stream)
    /\ c2s' = [c2s EXCEPT !.ended = @ \/ stream # Undefined]
    /\ outcome' = OrNull(fetchResult)
    /\ UNCHANGED <<fetchKey, callerSignal, remote, fetchResult, opened, written, consumed,
                   fetchPath>>
    /\ UNCHANGED <<lifeVars, registryVars, s2c, inVars>>

\* the timeoutController's timer fires
TimerFire ==
    /\ timer = "pending"
    /\ timer' = "fired"
    /\ UNCHANGED <<fetchPc, fetchKey, callerSignal, remote, stream, fetchResult, outcome,
                   opened, written, consumed, fetchPath>>
    /\ UNCHANGED <<lifeVars, registryVars, wireVars, inVars>>

\* the caller aborts the signal it supplied
CallerAbort ==
    /\ fetchPc \notin {"idle", "done"}
    /\ callerSignal = "pending"
    /\ callerSignal' = "aborted"
    /\ UNCHANGED <<fetchPc, fetchKey, remote, timer, stream, fetchResult, outcome, opened,
                   written, consumed, fetchPath>>
    /\ UNCHANGED <<lifeVars, registryVars, wireVars, inVars>>

\* ------------------------------------------------------------------ inbound flow: handleMessage

NoResponse == [status |-> "none", data |-> <<>>]

\* no lookup function reported as NOT_FOUND
NoLookupResponseNotFound(identifier) ==
    [status |-> "NOT_FOUND",
     data |-> TextEncode(<<"No lookup function registered for key: ">> \o identifier)]

\* the response when no lookup function is registered for the identifier
NoLookupResponse(identifier) ==
    [status |-> "ERROR",
     data |-> TextEncode(<<"No lookup function registered for key: ">> \o identifier)]

\* a truthiness test of the data's length in place of data != null
LookupResponseEmptyNotFound(data) ==
    IF data.kind = "value" /\ data.data # <<>>
    THEN [status |-> "OK", data |-> data.data]
    ELSE [status |-> "NOT_FOUND", data |-> <<>>]

\* the response for what the lookup function returned
LookupResponse(data) ==
    IF data.kind = "value"
    THEN [status |-> "OK", data |-> data.data]
    ELSE [status |-> "NOT_FOUND", data |-> <<>>]

\* first(source) completes: without a request the invocation fails; else the
\* request is decoded and its lookup function selected and invoked, or the
\* ERROR response built
InboundRead ==
    /\ inPc = "read"
    /\ Readable(c2s)
    /\ LET buf == First(c2s) IN
       IF buf.kind # "buf" \/ Malformed(buf.payload)
       THEN /\ inPc' = "failed"
            /\ inError' =
                 IF buf.kind = "nothing"
                 THEN Err("ERR_INVALID_MESSAGE", <<"No data received">>)
                 ELSE IF buf.kind = "framing"
                      THEN Err("ERR_FRAMING", <<"unexpected end of input">>)
                 ELSE Err("ERR_DECODE", <<"malformed message">>)
            /\ UNCHANGED <<inRequest, inLookup, inArg, inResponse>>
       ELSE LET request == FetchRequestDecode(buf.payload)
                lookup == getLookupFunction(lookupFunctions, request.identifier)
            IN  /\ inRequest' = request.identifier
                /\ inLookup' = lookup
                /\ IF lookup # Undefined
                   THEN /\ inPc' = "lookup"
                        /\ inArg' = request.identifier
                        /\ UNCHANGED inResponse
                   ELSE /\ inPc' = "respond"
                        /\ inResponse' = NoLookupResponse(request.identifier)
                        /\ UNCHANGED inArg
                /\ UNCHANGED inError
    /\ UNCHANGED <<lifeVars, registryVars, fetchVars, wireVars, inResult, inLogged, inEscaped>>

\* the lookup function returns a value or null
LookupReturn(data) ==
    /\ inPc = "lookup"
    /\ inPc' = "respond"
    /\ inResult' = data
    /\ inResponse' = LookupResponse(data)
    /\ UNCHANGED <<inRequest, inLookup, inArg, inError, inLogged, inEscaped>>
    /\ UNCHANGED <<lifeVars, registryVars, fetchVars, wireVars>>

\* a thrown lookup function that is answered with an ERROR response
LookupThrowAnswered ==
    /\ inPc = "lookup"
    /\ inPc' = "respond"
    /\ inResponse' = [status |-> "ERROR", data |-> TextEncode(<<>>)]
    /\ UNCHANGED <<inRequest, inLookup, inArg, inResult, inError, inLogged, inEscaped>>
    /\ UNCHANGED <<lifeVars, registryVars, fetchVars, wireVars>>

\* the lookup function throws: the invocation fails
LookupThrow ==
    /\ inPc = "lookup"
    /\ inPc' = "failed"
    /\ inError' = Err("ERR_LOOKUP", <<"lookup failed">>)
    /\ UNCHANGED <<inRequest, inLookup, inArg, inResult, inResponse, inLogged, inEscaped>>
    /\ UNCHANGED <<lifeVars, registryVars, fetchVars, wireVars>>

\* a handler that answers every request frame on the stream
InboundWriteEach ==
    /\ inPc = "respond"
    /\ inPc' = IF Len(c2s.frames) > Len(s2c.frames) + 1 THEN "respond" ELSE "written"
    /\ s2c' = [s2c EXCEPT !.frames = Append(@, LpEncode(FetchResponseEncode(inResponse)))]
    /\ UNCHANGED <<inRequest, inLookup, inArg, inResult, inResponse, inError, inLogged,
                   inEscaped>>
    /\ UNCHANGED <<lifeVars, registryVars, fetchVars, c2s>>

\* the response is encoded, framed and written into the stream
InboundWrite ==
    /\ inPc = "respond"
    /\ inPc' = "written"
    /\ s2c' = [s2c EXCEPT !.frames = Append(@, LpEncode(FetchResponseEncode(inResponse)))]
    /\ UNCHANGED <<inRequest, inLookup, inArg, inResult, inResponse, inError, inLogged,
                   inEscaped>>
    /\ UNCHANGED <<lifeVars, registryVars, fetchVars, c2s>>

\* a handler with finally but no catch: the stream is closed, the failure is
\* not logged and leaves the promise chain
InboundCloseNoCatch ==
    /\ inPc \in {"written", "failed"}
    /\ inPc' = "closed"
    /\ s2c' = [s2c EXCEPT !.ended = TRUE]
    /\ inEscaped' = (inPc = "failed")
    /\ UNCHANGED <<inRequest, inLookup, inArg, inResult, inResponse, inError, inLogged>>
    /\ UNCHANGED <<lifeVars, registryVars, fetchVars, c2s>>

\* the handler's catch and finally: the error is logged, the stream closed
InboundClose ==
    /\ inPc \in {"written", "failed"}
    /\ inPc' = "closed"
    /\ s2c' = [s2c EXCEPT !.ended = TRUE]
    /\ inLogged' = inError
    /\ UNCHANGED <<inRequest, inLookup, inArg, inResult, inResponse, inError, inEscaped>>
    /\ UNCHANGED <<lifeVars, registryVars, fetchVars, c2s>>

\* ------------------------------------------------------------------ a remote that is no engine

\* How many frames an arbitrary remote sends on one stream.
MaxRemoteFrames == 2

\* What an arbitrary remote may send: every response, with known and unknown
\* status, a malformed body, and a frame cut short by the end of the stream.
RemoteFrames ==
    {LpEncode(FetchResponseEncode([status |-> s, data |-> d])) :
        s \in {"OK", "NOT_FOUND", "ERROR", "UNKNOWN"}, d \in Values}
    \cup {LpEncode(<<Field(0, <<>>)>>), [length |-> 1, payload |-> <<>>]}

RemoteSend(frame) ==
    /\ remote = "arbitrary"
    /\ stream = "open"
    /\ ~s2c.ended
    /\ Len(s2c.frames) < MaxRemoteFrames
    /\ s2c' = [s2c EXCEPT !.frames = Append(@, frame)]
    /\ UNCHANGED <<lifeVars, registryVars, fetchVars, c2s, inVars>>

RemoteEnd ==
    /\ remote = "arbitrary"
    /\ stream = "open"
    /\ ~s2c.ended
    /\ s2c' = [s2c EXCEPT !.ended = TRUE]
    /\ UNCHANGED <<lifeVars, registryVars, fetchVars, c2s, inVars>>

\* ------------------------------------------------------------------ a stream.close() that throws

CloseError == Err("ERR_STREAM_CLOSE", <<"close failed">>)

\* the finally block when stream.close() throws: the timer was cleared on the
\* line before, and the exception leaves the finally block and the call
FetchFinallyCloseThrows ==
    /\ fetchPc = "finally"
    /\ stream # Undefined
    /\ fetchPc' = "done"
    /\ timer' = ClearTimeout(timer)
    /\ outcome' = CloseError
    /\ UNCHANGED <<fetchKey, callerSignal, remote, stream, fetchResult, opened, written,
                   consumed, fetchPath>>
    /\ UNCHANGED <<lifeVars, registryVars, wireVars, inVars>>

\* ------------------------------------------------------------------ a requester that is no engine

\* How many request frames a remote requester sends on one stream.
MaxRequestFrames == 2

\* What a remote requester may send: a request for each key, a malformed
\* body, and a frame cut short by the end of the stream.
RequestFrames ==
    {LpEncode(FetchRequestEncode([identifier |-> k])) : k \in Keys}
    \cup {LpEncode(<<Field(0, <<>>)>>), [length |-> 1, payload |-> <<>>]}

\* a stream for the protocol arrives: the registrar invokes the handler of
\* start(), which calls handleMessage
InboundStream ==
    /\ handlerRegistered
    /\ fetchPc = "idle"
    /\ inPc = "idle"
    /\ inPc' = "read"
    /\ UNCHANGED <<inRequest, inLookup, inArg, inResult, inResponse, inError, inLogged,
                   inEscaped>>
    /\ UNCHANGED <<lifeVars, registryVars, fetchVars, wireVars>>

RequesterSend(frame) ==
    /\ fetchPc = "idle"
    /\ inPc \notin {"idle", "closed"}
    /\ ~c2s.ended
    /\ Len(c2s.frames) < MaxRequestFrames
    /\ c2s' = [c2s EXCEPT !.frames = Append(@, frame)]
    /\ UNCHANGED <<lifeVars, registryVars, fetchVars, s2c, inVars>>

RequesterEnd ==
    /\ fetchPc = "idle"
    /\ inPc \notin {"idle", "closed"}
    /\ ~c2s.ended
    /\ c2s' = [c2s EXCEPT !.ended = TRUE]
    /\ UNCHANGED <<lifeVars, registryVars, fetchVars, s2c, inVars>>

\* ------------------------------------------------------------------ start() and stop()

\* start() is called: registrar.handle is called and awaited
StartCall ==
    /\ startPc = "idle"
    /\ startPc' = "handle"
    /\ UNCHANGED <<started, handlerRegistered, stopPc>>
    /\ UNCHANGED <<registryVars, fetchVars, wireVars, inVars>>

\* the registrar stores the handler
HandleApply ==
    /\ startPc = "handle"
    /\ startPc' = "handled"
    /\ handlerRegistered' = TRUE
    /\ UNCHANGED <<started, stopPc>>
    /\ UNCHANGED <<registryVars, fetchVars, wireVars, inVars>>

\* registrar.handle rejects, nothing stored: start() throws before line 76
HandleRejects ==
    /\ startPc = "handle"
    /\ startPc' = "idle"
    /\ UNCHANGED <<started, handlerRegistered, stopPc>>
    /\ UNCHANGED <<registryVars, fetchVars, wireVars, inVars>>

\* a start() that also empties the registry
StartResumeClears ==
    /\ startPc = "handled"
    /\ startPc' = "idle"
    /\ started' = TRUE
    /\ lookupFunctions' = <<>>
    /\ UNCHANGED <<handlerRegistered, stopPc>>
    /\ UNCHANGED <<regBefore, observe, lastCall, fetchVars, wireVars, inVars>>

\* the await of registrar.handle resumes: this.started = true
StartResume ==
    /\ startPc = "handled"
    /\ startPc' = "idle"
    /\ started' = TRUE
    /\ UNCHANGED <<handlerRegistered, stopPc>>
    /\ UNCHANGED <<registryVars, fetchVars, wireVars, inVars>>

\* stop() is called: registrar.unhandle is called and awaited
StopCall ==
    /\ stopPc = "idle"
    /\ stopPc' = "unhandle"
    /\ UNCHANGED <<started, handlerRegistered, startPc>>
    /\ UNCHANGED <<registryVars, fetchVars, wireVars, inVars>>

\* the registrar drops the handler
UnhandleApply ==
    /\ stopPc = "unhandle"
    /\ stopPc' = "unhandled"
    /\ handlerRegistered' = FALSE
    /\ UNCHANGED <<started, startPc>>
    /\ UNCHANGED <<registryVars, fetchVars, wireVars, inVars>>

\* registrar.unhandle rejects, nothing dropped: stop() throws before line 81
UnhandleRejects ==
    /\ stopPc = "unhandle"
    /\ stopPc' = "idle"
    /\ UNCHANGED <<started, handlerRegistered, startPc>>
    /\ UNCHANGED <<registryVars, fetchVars, wireVars, inVars>>

\* the await of registrar.unhandle resumes: this.started = false
StopResume ==
    /\ stopPc = "unhandled"
    /\ stopPc' = "idle"
    /\ started' = FALSE
    /\ UNCHANGED <<handlerRegistered, startPc>>
    /\ UNCHANGED <<registryVars, fetchVars, wireVars, inVars>>

\* isStarted()
isStarted == started

\* ------------------------------------------------------------------ specifications

InitExchange ==
    /\ fetchPc = "idle"
    /\ fetchKey = <<>>
    /\ callerSignal = "none"
    /\ remote = "silent"
    /\ timer = "none"
    /\ stream = Undefined
    /\ fetchResult = NoResult
    /\ outcome = NoResult
    /\ opened = 0
    /\ written = 0
    /\ consumed = 0
    /\ fetchPath = "none"
    /\ c2s = NoBytes
    /\ s2c = NoBytes
    /\ inPc = "idle"
    /\ inRequest = <<>>
    /\ inLookup = Undefined
    /\ inArg = <<>>
    /\ inResult = NoResult
    /\ inResponse = NoResponse
    /\ inError = NoResult
    /\ inLogged = NoResult
    /\ inEscaped = FALSE

\* the constructor: started = false; the registrar holds no handler yet
InitConstructed ==
    /\ started = FALSE
    /\ handlerRegistered = FALSE
    /\ startPc = "idle"
    /\ stopPc = "idle"

\* after start() has returned
InitStarted ==
    /\ started = TRUE
    /\ handlerRegistered = TRUE
    /\ startPc = "idle"
    /\ stopPc = "idle"

\* the engine after construction, registry calls recorded
InitRegistry ==
    /\ lookupFunctions = <<>>
    /\ regBefore = {}
    /\ observe = TRUE
    /\ lastCall = NoCall
    /\ InitExchange
    /\ InitConstructed

\* the engine after construction
Init ==
    /\ lookupFunctions = <<>>
    /\ regBefore = {}
    /\ observe = FALSE
    /\ lastCall = NoCall
    /\ InitExchange
    /\ InitConstructed

\* the responding engine after construction and start()
InitResponder ==
    /\ lookupFunctions = <<>>
    /\ regBefore = {}
    /\ observe = FALSE
    /\ lastCall = NoCall
    /\ InitExchange
    /\ InitStarted

\* Every content of the registry: entries with distinct prefixes, in any order.
Registries ==
    LET all == {<<p, f>> : p \in Prefixes, f \in Lookups}
        entries == {[prefix |-> e[1], lookup |-> e[2]] : e \in all}
        seqs == UNION {[1..n -> entries] : n \in 0..Cardinality(Prefixes)}
    IN  {m \in seqs : \A i, j \in 1..Len(m) : m[i].prefix = m[j].prefix => i = j}

\* a started engine whose callers have registered some lookup functions
InitInbound ==
    /\ lookupFunctions \in Registries
    /\ regBefore = UNION {{<<lookupFunctions[i].prefix, lookupFunctions[j].prefix>> :
                              i \in 1..(j - 1)} : j \in 1..Len(lookupFunctions)}
    /\ observe = FALSE
    /\ lastCall = NoCall
    /\ InitExchange
    /\ InitStarted

NextRegistry ==
    \/ \E p \in Prefixes, f \in Lookups : Register(p, f)
    \/ \E p \in Prefixes, f \in Lookups \cup {Undefined} : Unregister(p, f)

\* the steps of a fetch call after the call itself
FetchSteps ==
    \/ OpenConnectionOk
    \/ OpenConnectionFail
    \/ OpenConnectionAbort
    \/ NewStreamOk
    \/ NewStreamFail
    \/ NewStreamAbort
    \/ FetchWriteRequest
    \/ FetchReadResponse
    \/ FetchAborted
    \/ FetchFinally
    \/ TimerFire
    \/ CallerAbort

Signals == {"none", "pending", "aborted"}

Next ==
    \/ NextRegistry
    \/ \E k \in Keys, sig \in Signals : FetchCall(k, sig, "engine")
    \/ FetchSteps
    \/ InboundRead
    \/ \E d \in {Value(v) : v \in Values} \cup {Null} : LookupReturn(d)
    \/ LookupThrow
    \/ InboundWrite
    \/ InboundClose

NextRemote ==
    \/ \E k \in Keys, sig \in Signals, peer \in Remotes \ {"engine"} : FetchCall(k, sig, peer)
    \/ FetchSteps
    \/ \E frame \in RemoteFrames : RemoteSend(frame)
    \/ RemoteEnd

NextLifecycle ==
    \/ NextRegistry
    \/ StartCall
    \/ HandleApply
    \/ HandleRejects
    \/ StartResume
    \/ StopCall
    \/ UnhandleApply
    \/ UnhandleRejects
    \/ StopResume

NextInbound ==
    \/ InboundStream
    \/ \E frame \in RequestFrames : RequesterSend(frame)
    \/ RequesterEnd
    \/ InboundRead
    \/ \E d \in {Value(v) : v \in Values} \cup {Null} : LookupReturn(d)
    \/ LookupThrow
    \/ InboundWrite
    \/ InboundClose

NextClose ==
    \/ NextRemote
    \/ FetchFinallyCloseThrows

\* The registry alone, with every call recorded.
SpecRegistry == InitRegistry /\ [][NextRegistry]_vars

\* Two engines: registry calls on the responder, one fetch call of the
\* requester and the inbound invocation it causes on the responder.
Spec == InitResponder /\ [][Next]_vars

\* One fetch call against a remote that is no engine: it sends any frames, or none.
SpecRemote == Init /\ [][NextRemote]_vars

\* The same, with what the event loop guarantees: a pending timer fires, a
\* fired signal rejects the operation that holds it, a finally block runs.
\* Nothing makes the connection manager or the remote act.
FairSpecRemote ==
    /\ SpecRemote
    /\ WF_vars(TimerFire)
    /\ WF_vars(NewStreamAbort)
    /\ WF_vars(FetchAborted)
    /\ WF_vars(FetchFinally)

\* The same fetch call on a stream whose close() may throw.
SpecClose == Init /\ [][NextClose]_vars

\* Registry calls interleaved with start() and stop() calls, one of each in
\* progress at a time, every registry call recorded.
SpecLifecycle == InitRegistry /\ [][NextLifecycle]_vars

\* One inbound stream of a requester that is no engine: it sends any frames, or none.
SpecInbound == InitInbound /\ [][NextInbound]_vars

\* The same, with what the event loop guarantees: the handler's promise
\* chain runs its catch and finally once handleMessage has settled.
FairSpecInbound == SpecInbound /\ WF_vars(InboundClose)

\* ------------------------------------------------------------------ the registry's contract

\* the entries of a Map, as a set
Entries(m) == {m[i] : i \in 1..Len(m)}

\* the entries of a Map under one prefix
EntriesAt(m, prefix) == {e \in Entries(m) : e.prefix = prefix}

\* prefix is a literal prefix of str
IsLiteralPrefix(prefix, str) ==
    Len(prefix) <= Len(str) /\ SubSeq(str, 1, Len(prefix)) = prefix

\* the registered prefixes that are literal prefixes of str
Matching(str) ==
    {e.prefix : e \in {x \in Entries(lookupFunctions) : IsLiteralPrefix(x.prefix, str)}}

\* C1: for every key, after every sequence of register and unregister calls,
\* resolve(key) is the lookup function stored under the matching registered
\* prefix whose latest registration is the earliest (first registered wins,
\* not the longest match), and is absent when no registered prefix matches.
C1_FirstRegisteredWins ==
    \A k \in Keys :
        IF Matching(k) = {}
        THEN getLookupFunction(lookupFunctions, k) = Undefined
        ELSE \E p \in Matching(k) :
                /\ \A q \in Matching(k) \ {p} : <<p, q>> \in regBefore
                /\ [prefix |-> p, lookup |-> getLookupFunction(lookupFunctions, k)]
                       \in Entries(lookupFunctions)

\* "a" was registered before "ab" with another lookup function, both are
\* registered, and resolve("abc") is the one of "a", the shorter prefix.
C1_Witness ==
    /\ <<(<<"a">>), (<<"a", "b">>)>> \in regBefore
    /\ Matching(<<"a", "b", "c">>) = {<<"a">>, <<"a", "b">>}
    /\ \E f \in Lookups : \E g \in Lookups \ {f} :
          /\ [prefix |-> <<"a">>, lookup |-> f] \in Entries(lookupFunctions)
          /\ [prefix |-> <<"a", "b">>, lookup |-> g] \in Entries(lookupFunctions)
          /\ getLookupFunction(lookupFunctions, <<"a", "b", "c">>) = f

\* C2: register(P, r) fails with the duplicate-key error when P is registered,
\* leaving the registry as it was, and succeeds when P is not registered,
\* storing r under P behind the entries there were; no prefix ever has two
\* entries.
C2_RegisterExclusive ==
    /\ lastCall.op = "register" =>
          IF EntriesAt(lastCall.before, lastCall.prefix) # {}
          THEN /\ lastCall.result = "ERR_KEY_ALREADY_EXISTS"
               /\ lookupFunctions = lastCall.before
          ELSE /\ lastCall.result = "ok"
               /\ lookupFunctions =
                    Append(lastCall.before,
                           [prefix |-> lastCall.prefix, lookup |-> lastCall.lookup])
    /\ \A i, j \in 1..Len(lookupFunctions) :
          lookupFunctions[i].prefix = lookupFunctions[j].prefix => i = j

\* A register call failed on a prefix that holds another lookup function than
\* the one offered, next to a second entry.
C2_Witness ==
    /\ lastCall.op = "register"
    /\ lastCall.result = "ERR_KEY_ALREADY_EXISTS"
    /\ MapGet(lookupFunctions, lastCall.prefix) \notin {lastCall.lookup, Undefined}
    /\ Len(lookupFunctions) = 2

\* C3: unregister(prefix, resolver?) removes the entry at prefix exactly when
\* there is one and the resolver is omitted or is the one stored there;
\* otherwise the registry stays as it was; it never raises an error and the
\* other entries keep their lookup functions and their order.
C3_UnregisterGuarded ==
    lastCall.op = "unregister" =>
        /\ lastCall.result = "ok"
        /\ IF \E e \in EntriesAt(lastCall.before, lastCall.prefix) :
                 lastCall.lookup \in {Undefined, e.lookup}
           THEN /\ EntriesAt(lookupFunctions, lastCall.prefix) = {}
                /\ lookupFunctions =
                     SelectSeq(lastCall.before, LAMBDA e : e.prefix # lastCall.prefix)
           ELSE lookupFunctions = lastCall.before

\* An unregister call named a registered prefix with another lookup function
\* than the stored one, and the entry is still there, next to a second entry.
C3_Witness ==
    /\ lastCall.op = "unregister"
    /\ lastCall.lookup # Undefined
    /\ MapGet(lookupFunctions, lastCall.prefix) \notin {lastCall.lookup, Undefined}
    /\ Len(lookupFunctions) = 2

\* ------------------------------------------------------------------ fetch's contract

\* part occurs in msg
Contains(msg, part) ==
    \E i \in 1..(Len(msg) - Len(part) + 1) : SubSeq(msg, i, i + Len(part) - 1) = part

\* the frame of a response with status s and data d
ResponseFrame(s, d) == LpEncode(FetchResponseEncode([status |-> s, data |-> d]))

Statuses == {"OK", "NOT_FOUND", "ERROR", "UNKNOWN"}

\* the fetch call's signal fired
Cancelled == callerSignal = "aborted" \/ timer = "fired"

\* C4: when fetch has read a response frame, what it returns follows from the
\* response's status: OK gives the data (empty data gives an empty value, not
\* absent), NOT_FOUND gives absent, ERROR throws invalid-parameters with the
\* decoded data in its message, any other status throws invalid-message.
C4_StatusDecides ==
    \A st \in Statuses, d \in Values :
        (fetchPc = "done" /\ consumed = 1 /\ s2c.frames[1] = ResponseFrame(st, d)) =>
            CASE st = "OK" -> outcome.kind = "value" /\ outcome.data = d
              [] st = "NOT_FOUND" -> outcome.kind = "null"
              [] st = "ERROR" ->
                    /\ outcome.kind = "error"
                    /\ outcome.code = "ERR_INVALID_PARAMETERS"
                    /\ Contains(outcome.msg, TextDecode(d))
              [] OTHER ->
                    /\ outcome.kind = "error"
                    /\ outcome.code = "ERR_INVALID_MESSAGE"
                    /\ outcome.msg = <<"Unknown response status">>

\* fetch read an OK response with empty data and returned an empty value
C4_Witness ==
    /\ fetchPc = "done"
    /\ consumed = 1
    /\ s2c.frames[1] = ResponseFrame("OK", <<>>)
    /\ outcome = Value(<<>>)

\* C5: a fetch call whose read completes on a stream the remote ended without
\* sending a frame throws invalid-message "No data received"; and no fetch
\* call on a stream that carried no response frame returns a value or absent:
\* it throws.
C5_NoDataReceived ==
    (fetchPc = "done" /\ opened = 1 /\ s2c.frames = <<>>) =>
        /\ outcome.kind = "error"
        /\ fetchPath = "read" =>
              /\ outcome.code = "ERR_INVALID_MESSAGE"
              /\ outcome.msg = <<"No data received">>

\* the remote ended the stream unused and fetch, reading, threw
C5_Witness ==
    /\ fetchPc = "done"
    /\ fetchPath = "read"
    /\ s2c = [frames |-> <<>>, ended |-> TRUE]
    /\ outcome = Err("ERR_INVALID_MESSAGE", <<"No data received">>)

\* C6: a fetch call without a caller's signal to a peer that never responds
\* ends: it throws the cancellation error (or openConnection's error, should
\* the connection manager give up).
C6_TimeoutEndsFetch ==
    (fetchPc = "openConnection" /\ callerSignal = "none" /\ remote = "silent")
        ~> (fetchPc = "done" /\ (outcome = AbortError \/ fetchPath = "openConnection"))

\* What the timer does bound: from the await of newStream on, the same call
\* ends with the cancellation error (or newStream's own error).
TimeoutBoundsAfterConnection ==
    (fetchPc = "newStream" /\ callerSignal = "none" /\ remote = "silent")
        ~> (fetchPc = "done" /\ (outcome = AbortError \/ fetchPath = "newStream"))

\* C7: when fetch has returned, on whatever path, the timer it created is
\* not pending, and from then on the timer's state does not change: its signal
\* does not fire after the return.
C7_TimerDisposed ==
    /\ [](fetchPc = "done" => timer # "pending")
    /\ [][fetchPc = "done" => timer' = timer]_vars

\* fetch returned a value and cleared the timer it had created
C7_Witness ==
    /\ fetchPc = "done"
    /\ outcome.kind = "value"
    /\ timer = "cleared"

\* C9: a fetch call opens at most one stream, writes at most one request
\* frame and consumes at most one response frame; once its result is an error
\* it opens and writes nothing more; it has no outcome before it ends, and
\* then one: a value, absent or an error, which stays.
C9_OneExchange ==
    /\ [](/\ opened <= 1 /\ written <= 1 /\ consumed <= 1
          /\ fetchPc # "done" => outcome = NoResult
          /\ fetchPc = "done" => outcome.kind \in {"value", "null", "error"})
    /\ [][(fetchPc = "done" \/ fetchResult.kind = "error") =>
             /\ opened' = opened
             /\ written' = written
             /\ consumed' = consumed
             /\ fetchPc = "done" => outcome' = outcome]_vars

\* fetch was cancelled in the exchange, after it had written its request,
\* and ended with the cancellation error
C9_Witness ==
    /\ fetchPc = "done"
    /\ fetchPath = "abort"
    /\ outcome = AbortError
    /\ opened = 1
    /\ written = 1

\* ------------------------------------------------------------------ requester and responder

\* C8: with fetch and handleMessage on one stream and no cancellation: when
\* the lookup function selected for the key returned value v, fetch returns v;
\* when it returned null, fetch returns absent; when no registered prefix
\* matched, fetch throws invalid-parameters with a message that contains
\* "No lookup function registered for key: <key>".
C8_EndToEnd ==
    (fetchPc = "done" /\ ~Cancelled /\ inPc \notin {"idle", "read"}) =>
        /\ inRequest = fetchKey
        /\ inLookup # Undefined /\ inResult.kind = "value" => outcome = Value(inResult.data)
        /\ inLookup # Undefined /\ inResult.kind = "null" => outcome.kind = "null"
        /\ inLookup = Undefined =>
              /\ outcome.kind = "error"
              /\ outcome.code = "ERR_INVALID_PARAMETERS"
              /\ Contains(outcome.msg,
                          <<"No lookup function registered for key: ">> \o fetchKey)

\* the lookup function registered under "a" returned 1,2,3 for "abc", and
\* fetch returned 1,2,3
C8_Witness ==
    /\ fetchPc = "done"
    /\ ~Cancelled
    /\ fetchKey = <<"a", "b", "c">>
    /\ inLookup # Undefined
    /\ inResult = Value(<<1, 2, 3>>)
    /\ outcome = Value(<<1, 2, 3>>)

\* C10: the response handleMessage builds and writes for the request it read:
\* ERROR with "No lookup function registered for key: <identifier>" when no
\* lookup function was found; OK with the lookup function's value, empty or
\* not, when it returned one; NOT_FOUND with empty data when it returned null.
\* NOT_FOUND never carries data, and the lookup function is invoked with the
\* request's identifier.
C10_ResponseBuilt ==
    /\ inPc \in {"lookup", "respond", "written"} =>
          /\ c2s.frames[1] = LpEncode(FetchRequestEncode([identifier |-> inRequest]))
          /\ inLookup # Undefined => inArg = inRequest
    /\ inPc \in {"respond", "written"} =>
          /\ inLookup = Undefined =>
                inResponse =
                    [status |-> "ERROR",
                     data |-> TextEncode(<<"No lookup function registered for key: ">>
                                         \o inRequest)]
          /\ inLookup # Undefined /\ inResult.kind = "value" =>
                inResponse = [status |-> "OK", data |-> inResult.data]
          /\ inLookup # Undefined /\ inResult.kind = "null" =>
                inResponse = [status |-> "NOT_FOUND", data |-> <<>>]
          /\ inResponse.status \in {"OK", "NOT_FOUND", "ERROR"}
          /\ inResponse.status = "NOT_FOUND" => inResponse.data = <<>>
    /\ inPc = "written" =>
          /\ Len(s2c.frames) = 1
          /\ s2c.frames[1].length = Len(s2c.frames[1].payload)
          /\ FetchResponseDecode(s2c.frames[1].payload) = inResponse

\* handleMessage found no lookup function for "b" and wrote the ERROR response
C10_Witness ==
    /\ inPc = "written"
    /\ inRequest = <<"b">>
    /\ inLookup = Undefined
    /\ FetchResponseDecode(s2c.frames[1].payload).status = "ERROR"
    /\ lookupFunctions # <<>>

\* ------------------------------------------------------------------ the inbound invocation's exits

LookupError == Err("ERR_LOOKUP", <<"lookup failed">>)

\* C11: when the lookup function handleMessage invoked throws, the invocation
\* fails with the thrown error and no response frame is written on the stream,
\* not even an ERROR response; when no lookup function is registered, the
\* invocation does not fail and an ERROR response frame is written.
C11_LookupThrowNoResponse ==
    /\ (inPc \notin {"idle", "read", "lookup"} /\ inLookup # Undefined /\ inResult = NoResult) =>
          /\ inPc \in {"failed", "closed"}
          /\ inError = LookupError
          /\ inResponse = NoResponse
          /\ s2c.frames = <<>>
    /\ (inPc \in {"written", "closed"} /\ inLookup = Undefined /\ inRequest # <<>>) =>
          /\ inError = NoResult
          /\ Len(s2c.frames) = 1
          /\ FetchResponseDecode(s2c.frames[1].payload).status = "ERROR"

\* the lookup function registered under "a" threw for "abc": the stream was
\* closed with nothing written
C11_Witness ==
    /\ inPc = "closed"
    /\ inRequest = <<"a", "b", "c">>
    /\ inLookup # Undefined
    /\ inError = LookupError
    /\ s2c = [frames |-> <<>>, ended |-> TRUE]

\* how the inbound invocation ended: with a response written, or failed
\* without a request, on a request that does not decode, or in the lookup function
InboundExit ==
    IF inPc \notin {"written", "failed", "closed"} THEN "none"
    ELSE IF inError = NoResult THEN "response written"
    ELSE IF inError = LookupError THEN "lookup failure"
    ELSE IF inError.code = "ERR_INVALID_MESSAGE" THEN "no request"
    ELSE "malformed request"

\* C12: a stream the registrar handed to the handler of start() is closed
\* after handleMessage has settled, however it settled: having written the
\* response, without a request, on a malformed request, or with a throwing
\* lookup function. When it failed, the error is logged and nothing else
\* happens: no error leaves the handler, and the registrar's handler
\* registration, the started flag and the registry are as they were.
C12_InboundStreamClosed ==
    /\ [](inPc = "closed" => s2c.ended /\ inLogged = inError)
    /\ [](~inEscaped)
    /\ [][inPc' # inPc => UNCHANGED <<lifeVars, registryVars>>]_vars
    /\ \A exit \in {"response written", "lookup failure", "no request", "malformed request"} :
          (inPc \in {"written", "failed"} /\ InboundExit = exit)
              ~> (inPc = "closed" /\ InboundExit = exit)

\* a request that does not decode: the invocation failed, the error was
\* logged and the stream closed
C12_Witness ==
    /\ inPc = "closed"
    /\ InboundExit = "malformed request"
    /\ inError.code = "ERR_DECODE"
    /\ inLogged = inError
    /\ s2c.ended

\* ------------------------------------------------------------------ fetch's stream

\* C13: when fetch has returned or thrown, the stream it opened is closed,
\* whichever way the call ended after the open: a value, absent, an ERROR or
\* unknown status, no data, a malformed response, a cancellation. When
\* newStream rejected, there is no stream, none is closed, and fetch throws
\* what newStream threw.
C13_StreamClosedOnReturn ==
    fetchPc = "done" =>
        /\ opened = 1 => stream = "closed" /\ c2s.ended /\ fetchPath \in {"read", "abort"}
        /\ opened = 0 => stream = Undefined /\ ~c2s.ended
        /\ fetchPath = "newStream" =>
              /\ opened = 0
              /\ outcome.kind = "error"
              /\ outcome.code \in {"ERR_STREAM_OPEN", "ABORT_ERR"}
              /\ outcome = fetchResult

\* a fetch cancelled during the exchange has thrown, its stream closed
C13_Witness ==
    /\ fetchPc = "done"
    /\ fetchPath = "abort"
    /\ opened = 1
    /\ outcome = AbortError
    /\ stream = "closed"

\* C14: closing the stream at the end of fetch is best-effort: also when
\* stream.close() fails, what fetch returns or throws is what the exchange
\* produced (the value, absent, or the error of the try block), never the
\* failure of close.
C14_CloseBestEffort ==
    (fetchPc = "done" /\ fetchPath # "openConnection") =>
        /\ outcome = OrNull(fetchResult)
        /\ outcome # CloseError

\* ------------------------------------------------------------------ fetch's cancellation signal

\* the operations fetch awaits: openConnection, newStream, the pipe's reads and writes
Blocked == fetchPc \in {"openConnection", "newStream", "exchange"}

\* C15: every operation a fetch call awaits (opening the connection, opening
\* the stream, the reads and writes of the exchange) holds the call's
\* cancellation signal, the caller's or that of the internal timeout; and a
\* call whose awaited operation the signal aborted throws the cancellation error.
C15_EveryOperationCancellable ==
    /\ Blocked => callerSignal \in {"pending", "aborted"} \/ timer \in {"pending", "fired"}
    /\ (fetchPc = "done" /\ fetchPath = "abort") => outcome = AbortError

\* C16: a fetch call creates its timeout timer exactly when the caller
\* supplied no signal; a supplied signal is the call's only cancellation
\* source, the timer is never created beside it.
C16_OneCancellationSource ==
    /\ timer # "none" => callerSignal = "none"
    /\ fetchPc = "done" => (timer # "none" <=> callerSignal = "none")

\* ------------------------------------------------------------------ lifecycle

\* C17: the registry does not depend on the lifecycle. Whether the engine is
\* started or stopped, and while start() or stop() is in progress, a
\* register, unregister or resolve does what it does on the same Map in any
\* other lifecycle state; no step of start() or stop() changes the registry's
\* entries or their order; no register or unregister changes the started
\* flag or the registrar's handler registration.
C17_RegistryApartFromLifecycle ==
    /\ [](C1_FirstRegisteredWins /\ C2_RegisterExclusive /\ C3_UnregisterGuarded)
    /\ [][lifeVars' # lifeVars => UNCHANGED <<lookupFunctions, regBefore, lastCall>>]_vars
    /\ [][lastCall' # lastCall \/ lookupFunctions' # lookupFunctions => UNCHANGED lifeVars]_vars

\* started, with the handler registered and a stop() awaiting unhandle: "a"
\* and then "" are registered, and another register of "a" has thrown
C17_Witness ==
    /\ started
    /\ handlerRegistered
    /\ startPc = "idle"
    /\ stopPc = "unhandle"
    /\ MapKeys(lookupFunctions) = <<<<"a">>, <<>>>>
    /\ lastCall.op = "register"
    /\ lastCall.prefix = <<"a">>
    /\ lastCall.result = "ERR_KEY_ALREADY_EXISTS"
    /\ getLookupFunction(lookupFunctions, <<"a", "b", "c">>) = MapGet(lookupFunctions, <<"a">>)

\* C20: the engine is constructed not started, and in every state in which
\* no start() and no stop() call is in progress, isStarted() is true exactly
\* when the registrar holds the engine's handler: after any sequence of
\* calls, after calls that overlapped and whose registrar operations
\* completed in either order, and after a handle or unhandle that failed.
C20_StartedIffRegistered ==
    (startPc = "idle" /\ stopPc = "idle") => (isStarted <=> handlerRegistered)

\* ------------------------------------------------------------------ resolve among registry calls

\* C18: with register and unregister calls interleaved in any way with a
\* running inbound invocation, the lookup function the invocation resolves
\* for its request is taken from the registry as it is at that step: absent
\* when no registered prefix matches the identifier, else the lookup function
\* stored, at that step, under the first registered of the matching
\* prefixes; never one that is not stored under a matching prefix then.
C18_ResolveSeesWholeRegistry ==
    [][(inPc = "read" /\ inPc' \in {"lookup", "respond"}) =>
          IF Matching(inRequest') = {}
          THEN inLookup' = Undefined
          ELSE \E p \in Matching(inRequest') :
                  /\ \A q \in Matching(inRequest') \ {p} : <<p, q>> \in regBefore
                  /\ [prefix |-> p, lookup |-> inLookup'] \in Entries(lookupFunctions)
                  /\ inArg' = inRequest']_vars

\* the invocation resolved a lookup function for "abc" that has been
\* unregistered since: the registry holds "a" with the other one
C18_Witness ==
    /\ inPc = "lookup"
    /\ inRequest = <<"a", "b", "c">>
    /\ inLookup = "f1"
    /\ Matching(inRequest) = {<<"a">>}
    /\ MapGet(lookupFunctions, <<"a">>) = "f2"

\* ------------------------------------------------------------------ one request, one response

\* C19: on one inbound stream a response frame is written only after a
\* complete request frame has been read, and it answers that request; the
\* stream never carries a second response frame, however many request frames
\* the requester sends.
C19_OneResponseAfterRequest ==
    /\ Len(s2c.frames) <= 1
    /\ inPc \in {"idle", "read", "lookup", "respond", "failed"} => s2c.frames = <<>>
    /\ s2c.frames # <<>> =>
          /\ c2s.frames # <<>>
          /\ c2s.frames[1].length = Len(c2s.frames[1].payload)
          /\ ~Malformed(c2s.frames[1].payload)
          /\ FetchRequestDecode(c2s.frames[1].payload).identifier = inRequest
          /\ FetchResponseDecode(s2c.frames[1].payload) = inResponse
          /\ inResponse # NoResponse

\* the requester sent requests for "abc" and for "b": the first was answered
\* and the stream closed with one response frame
C19_Witness ==
    /\ inPc = "closed"
    /\ Len(c2s.frames) = 2
    /\ c2s.frames[1] = LpEncode(FetchRequestEncode([identifier |-> <<"a", "b", "c">>]))
    /\ c2s.frames[2] = LpEncode(FetchRequestEncode([identifier |-> <<"b">>]))
    /\ inRequest = <<"a", "b", "c">>
    /\ Len(s2c.frames) = 1

====
